---- MODULE Spec2Model ----
(***************************************************************************)
(* Model of the two model-backend adapters of the repository:              *)
(*   modeling/inference_models/horde.py          (remote Horde cluster)    *)
(*   modeling/inference_models/exllama/class.py  (local ExLlama / GPTQ)    *)
(* The HTTP service, the file system, the compute provider and the host    *)
(* are the environment: their answers are drawn from small sets.           *)
(***************************************************************************)
EXTENDS Integers, Sequences, FiniteSets, TLC

VARIABLES
    \* ---- Horde adapter (horde.py) ----
    hordeState,     \* "none" | "constructed" | "init_failed"  (outcome of __init__)
    models,         \* self.models, an Option of a list of {text, value} entries
    initError,      \* the exception __init__ ended with (NoError when none)
    modelsResp,     \* the answer the model-status endpoint gave to __init__
    hpc,            \* _raw_generate: "idle" | "polling" | "returned" | "raised"
    posts,          \* submission POSTs issued by the current call
    gets,           \* status GETs issued by the current call
    sleeps,         \* time.sleep(1) pauses taken by the current call
    postResp,       \* the answer to the submission POST of the current call
    statusLog,      \* the answers the status endpoint gave, in order
    request_id,     \* local request_id
    finished,       \* local finished
    req_status,     \* local req_status (last parsed status body)
    horde_telemetry,\* utils.koboldai_vars.horde_wait_time/queue_position/queue_size
    hordeResult,    \* the GenerationResult returned (Option of out_batches)
    hordeError,     \* the exception _raw_generate ended with
    \* ---- which backend the host instantiated ----
    backend,        \* "Horde" | "ExLlama"
    \* ---- ExLlama adapter (exllama/class.py) ----
    dir,            \* contents of the model directory (environment)
    gpu_count,      \* torch.cuda.device_count() (environment)
    model_config,   \* self.model_config: None, False or an ExLlamaConfig
    isValidResult,  \* what is_valid returned: "unset" | "True" | "False"
    submitted,      \* the last layer assignment given to set_input_parameters (Option)
    rejected,       \* the host refused the last assignment it was given
    layers,         \* self.layers
    loaded,         \* _load has run: model, tokenizer, cache, generator exist
    handles,        \* which of self.model, tokenizer, cache, generator are not None
    tensors,        \* the live tensors gc.get_objects() finds: "allocated" | "empty"
    zero_failed,    \* the tensors whose zeroing raised during the last unload
    gc_collected,   \* gc.collect() ran in the last unload
    cache_emptied,  \* torch.cuda.empty_cache() succeeded in the last unload
    upc,            \* unload: "idle" | "returned" | "raised" (idle once another
                    \* operation has run since)
    lpc,            \* _raw_generate: "idle" | "generating" | "returned"
    gen_in,         \* the prompt tokens
    max_new,        \* the requested number of new tokens
    step,           \* the loop variable i: iterations started so far
    stopped,        \* the loop was left by `break`
    sequence,       \* self.generator.sequence
    sampled,        \* the tokens the sampler drew during the call, in order
    rng,            \* what the process-wide random generator was last seeded with
    tkns_before,    \* generated_tkns at the entry of the call
    generated_tkns, \* utils.koboldai_vars.generated_tkns
    genResult,      \* out_batches of the GenerationResult returned (Option)
    bos_score,      \* the score the bos token had in the last step that drew it (Option)
    seed_arg,       \* the seed argument of the call (NoInt for None)
    rng_before      \* what the random generator was seeded with at the entry of the call

hordeVars == <<hordeState, models, initError, modelsResp, hpc, posts, gets, sleeps,
               postResp, statusLog, request_id, finished, req_status,
               horde_telemetry, hordeResult, hordeError>>

setupVars == <<dir, gpu_count, model_config, isValidResult, submitted, rejected,
               layers, loaded>>

unloadVars == <<handles, tensors, zero_failed, gc_collected, cache_emptied, upc>>

genVars == <<lpc, gen_in, max_new, step, stopped, sequence, sampled, rng,
             tkns_before, generated_tkns, genResult, bos_score, seed_arg,
             rng_before>>

vars == <<backend, hordeVars, setupVars, unloadVars, genVars>>

-----------------------------------------------------------------------------
\* Bounds of the model (not program constants).
MaxPolls == 4      \* status GETs one call may issue in the model
MaxGens == 2       \* entries of a status response's "generations" list
MaxLayers == 2     \* transformer layers a model configuration may declare
MaxGPUs == 2       \* devices torch.cuda.device_count() may report
MaxNew == 3        \* largest max_new the host asks for
MaxTensors == 2    \* live tensors a loaded model holds

-----------------------------------------------------------------------------
\* Python values.

\* Optional value: None, or some value.
None == [some |-> FALSE, val |-> <<>>]
Some(v) == [some |-> TRUE, val |-> v]

\* Exceptions: kind is the Python class, msg identifies the message.
NoError == [kind |-> "none", msg |-> ""]
Exc(k, m) == [kind |-> k, msg |-> m]

\* HordeException messages (horde.py lines 182, 187, 191, 200, 219, 224, 232, 238, 254).
MsgUnavailable == "Horde unavailable. Please try again later"
MsgNoServers == "KoboldAI API Error: No available KoboldAI servers found in Horde"
MsgNonStandard == "KoboldAI API Error: Failed to get a standard reply from the Horde"
MsgUnexpectedSubmit == "Unexpected message received from the Horde"
MsgUnexpectedMessage == "Unexpected message received from the KoboldAI Horde"
MsgUnexpectedResponse == "Unexpected response received from the KoboldAI Horde"
MsgFaulted == "Horde Text generation faulted! Please try again."

\* requests.Response.ok: the status is below 400.
Ok(status) == status < 400

-----------------------------------------------------------------------------
\* The environment of the Horde adapter: what the HTTP service may answer.

ConnectionError == "connection_error"
Texts == {"a", "b"}

\* tokenizer.encode of a generated text (the tokenizer is external).
Encode(text) == CASE text = "a" -> <<11>>
                  [] text = "b" -> <<12>>
                  [] OTHER -> <<>>

Generation(t) == [text |-> t, worker_name |-> "worker", worker_id |-> "wid"]

RECURSIVE SeqsUpTo(_, _)
SeqsUpTo(S, n) ==
    IF n = 0 THEN {<<>>}
    ELSE LET shorter == SeqsUpTo(S, n - 1)
         IN shorter \cup {Append(s, x) : s \in {t \in shorter : Len(t) = n - 1}, x \in S}

GenerationLists == SeqsUpTo({Generation(t) : t \in Texts}, MaxGens)

\* A JSON status body: which keys it has and their values.
StatusBody(hd, d, hf, f, t, hg, g) ==
    [hasDone |-> hd, done |-> d, hasFaulted |-> hf, faulted |-> f,
     telemetry |-> t, hasGens |-> hg, generations |-> g]

NoBody == StatusBody(FALSE, FALSE, FALSE, FALSE, FALSE, FALSE, <<>>)

StatusBodies ==
    {StatusBody(FALSE, FALSE, FALSE, FALSE, t, FALSE, <<>>) : t \in BOOLEAN}
    \cup {StatusBody(TRUE, FALSE, TRUE, f, t, FALSE, <<>>) : f \in BOOLEAN, t \in BOOLEAN}
    \cup {StatusBody(TRUE, TRUE, hf, f, t, hg, g) :
            hf \in BOOLEAN, f \in BOOLEAN, t \in BOOLEAN, hg \in BOOLEAN,
            g \in GenerationLists}

StatusResponse(n, s, j, b) == [net |-> n, status |-> s, json |-> j, body |-> b]

StatusResponses ==
    {StatusResponse(ConnectionError, 0, FALSE, NoBody)}
    \cup {StatusResponse("ok", s, FALSE, NoBody) : s \in {200, 404, 500}}
    \cup {StatusResponse("ok", 200, TRUE, b) :
            b \in {x \in StatusBodies : (~x.hasFaulted => ~x.faulted)
                                        /\ (~x.hasGens => x.generations = <<>>)}}

\* The answer to the submission POST.
PostResponse(n, s, j, hi) == [net |-> n, status |-> s, json |-> j, hasId |-> hi]

PostResponses ==
    {PostResponse(ConnectionError, 0, FALSE, FALSE)}
    \cup {r \in {PostResponse("ok", s, j, hi) :
                    s \in {200, 404, 500, 503}, j \in BOOLEAN, hi \in BOOLEAN} :
            r.hasId => r.json}

NoPost == PostResponse("none", 0, FALSE, FALSE)

\* The answer to the model-status GET of __init__: body is "nonjson", "engines"
\* (a JSON array of {name, ...}) or "other" (JSON of another shape).
ModelsResponse(n, s, b, e) == [net |-> n, status |-> s, body |-> b, engines |-> e]

ModelsResponses ==
    {ModelsResponse(ConnectionError, 0, "nonjson", <<>>)}
    \cup {ModelsResponse("ok", s, b, <<>>) : s \in {200, 500}, b \in {"nonjson", "other"}}
    \cup {ModelsResponse("ok", s, "engines", e) :
            s \in {200, 500}, e \in {<<>>, <<"m1">>, <<"m1", "m2">>}}

NoModelsResponse == ModelsResponse("none", 0, "nonjson", <<>>)

-----------------------------------------------------------------------------
\* Horde adapter: construction (horde.py lines 26-34, 87-116).

\* Whether the name `emit` is bound when get_cluster_models runs: the module
\* imports time, torch, requests, numpy, typing, utils, logger and
\* modeling.inference_model, and never binds `emit`, so calling it raises NameError.
EmitBoundIfImported == TRUE
EmitBound == FALSE

Raise(e) == [error |-> e, value |-> None]
Return(v) == [error |-> NoError, value |-> v]

get_cluster_models(resp) ==
    IF resp.net = ConnectionError
    THEN \* except: init_err, error, then emit(...)
         IF EmitBound THEN Return(None) ELSE Raise(Exc("NameError", "emit"))
    ELSE IF ~Ok(resp.status)
    THEN \* logger.error(req.json()), then emit(...)
         IF resp.body = "nonjson" THEN Raise(Exc("JSONDecodeError", "req.json()"))
         ELSE IF EmitBound THEN Return(None) ELSE Raise(Exc("NameError", "emit"))
    ELSE IF resp.body = "nonjson"
    THEN Raise(Exc("JSONDecodeError", "req.json()"))
    ELSE IF resp.body = "other"
    THEN \* the comprehension fails; logged and re-raised
         Raise(Exc("TypeError", "en[\"name\"]"))
    ELSE Return(Some([i \in 1..Len(resp.engines) |->
                        [text |-> resp.engines[i], value |-> resp.engines[i]]]))

\* model_backend.__init__: self.models = self.get_cluster_models()
HordeConstruct(resp) ==
    /\ backend = "Horde"
    /\ hordeState = "none"
    /\ LET r == get_cluster_models(resp)
       IN /\ modelsResp' = resp
          /\ IF r.error = NoError
             THEN /\ hordeState' = "constructed"
                  /\ models' = r.value
                  /\ initError' = NoError
             ELSE /\ hordeState' = "init_failed"
                  /\ models' = models
                  /\ initError' = r.error
    /\ UNCHANGED <<hpc, posts, gets, sleeps, postResp, statusLog, request_id,
                   finished, req_status, horde_telemetry, hordeResult, hordeError,
                   backend, setupVars, unloadVars, genVars>>

-----------------------------------------------------------------------------
\* Horde adapter: _raw_generate (horde.py lines 125-268).

HordeError(m) == Exc("HordeException", m)

\* Lines 174-205: the outcome of the submission POST, NoError when the job id
\* was extracted.
\* Variant without the 503 branch.
SubmitOutcomeNo503(resp) ==
    IF resp.net = ConnectionError THEN HordeError(MsgUnavailable)
    ELSE IF ~Ok(resp.status) THEN HordeError(MsgNonStandard)
    ELSE IF ~resp.json THEN HordeError(MsgUnexpectedSubmit)
    ELSE IF ~resp.hasId THEN Exc("KeyError", "id")
    ELSE NoError

SubmitOutcome(resp) ==
    IF resp.net = ConnectionError THEN HordeError(MsgUnavailable)
    ELSE IF resp.status = 503 THEN HordeError(MsgNoServers)
    ELSE IF ~Ok(resp.status) THEN HordeError(MsgNonStandard)
    ELSE IF ~resp.json THEN HordeError(MsgUnexpectedSubmit)
    ELSE IF ~resp.hasId THEN Exc("KeyError", "id")
    ELSE NoError

\* Lines 213-249: one iteration of the polling loop on the answer `resp`.
\*   error    the exception the iteration raised (NoError when none)
\*   parsed   req_status was assigned (line 229)
\*   finished the value assigned to finished (line 242)
\*   recorded the telemetry was stored (lines 243-245)
\*   sleep    time.sleep(1) ran (line 249)
Iteration(e, p, f, r, sl) ==
    [error |-> e, parsed |-> p, finished |-> f, recorded |-> r, sleep |-> sl]

\* Variants of the iteration used to show the properties depend on it: one that
\* pauses after every parsed answer, one that polls again after a failed GET.
PollIterationSleepAlways(resp) ==
    IF resp.net = ConnectionError
    THEN Iteration(HordeError(MsgUnavailable), FALSE, FALSE, FALSE, FALSE)
    ELSE IF ~Ok(resp.status)
    THEN Iteration(HordeError(MsgNonStandard), FALSE, FALSE, FALSE, FALSE)
    ELSE IF ~resp.json
    THEN Iteration(HordeError(MsgUnexpectedMessage), FALSE, FALSE, FALSE, FALSE)
    ELSE IF ~resp.body.hasDone
    THEN Iteration(HordeError(MsgUnexpectedResponse), TRUE, FALSE, FALSE, FALSE)
    ELSE IF ~resp.body.telemetry
    THEN Iteration(Exc("KeyError", "wait_time"), TRUE, resp.body.done, FALSE, FALSE)
    ELSE Iteration(NoError, TRUE, resp.body.done, TRUE, TRUE)

PollIterationRetrying(resp) ==
    IF resp.net = ConnectionError
    THEN Iteration(NoError, FALSE, FALSE, FALSE, TRUE)
    ELSE IF ~Ok(resp.status)
    THEN Iteration(NoError, FALSE, FALSE, FALSE, TRUE)
    ELSE IF ~resp.json
    THEN Iteration(HordeError(MsgUnexpectedMessage), FALSE, FALSE, FALSE, FALSE)
    ELSE IF ~resp.body.hasDone
    THEN Iteration(HordeError(MsgUnexpectedResponse), TRUE, FALSE, FALSE, FALSE)
    ELSE IF ~resp.body.telemetry
    THEN Iteration(Exc("KeyError", "wait_time"), TRUE, resp.body.done, FALSE, FALSE)
    ELSE Iteration(NoError, TRUE, resp.body.done, TRUE, ~resp.body.done)

\* Variant that takes an answer without "done" for a job still running.
PollIterationIgnoringMissingDone(resp) ==
    IF resp.net = ConnectionError
    THEN Iteration(HordeError(MsgUnavailable), FALSE, FALSE, FALSE, FALSE)
    ELSE IF ~Ok(resp.status)
    THEN Iteration(HordeError(MsgNonStandard), FALSE, FALSE, FALSE, FALSE)
    ELSE IF ~resp.json
    THEN Iteration(HordeError(MsgUnexpectedMessage), FALSE, FALSE, FALSE, FALSE)
    ELSE IF ~resp.body.hasDone
    THEN Iteration(NoError, TRUE, FALSE, FALSE, TRUE)
    ELSE IF ~resp.body.telemetry
    THEN Iteration(Exc("KeyError", "wait_time"), TRUE, resp.body.done, FALSE, FALSE)
    ELSE Iteration(NoError, TRUE, resp.body.done, TRUE, ~resp.body.done)

\* Variant that leaves the loop as soon as an answer reports faulted=true.
PollIterationStoppingOnFault(resp) ==
    IF resp.net = ConnectionError
    THEN Iteration(HordeError(MsgUnavailable), FALSE, FALSE, FALSE, FALSE)
    ELSE IF ~Ok(resp.status)
    THEN Iteration(HordeError(MsgNonStandard), FALSE, FALSE, FALSE, FALSE)
    ELSE IF ~resp.json
    THEN Iteration(HordeError(MsgUnexpectedMessage), FALSE, FALSE, FALSE, FALSE)
    ELSE IF ~resp.body.hasDone
    THEN Iteration(HordeError(MsgUnexpectedResponse), TRUE, FALSE, FALSE, FALSE)
    ELSE IF ~resp.body.telemetry
    THEN Iteration(Exc("KeyError", "wait_time"), TRUE, resp.body.done, FALSE, FALSE)
    ELSE Iteration(NoError, TRUE, resp.body.done \/ resp.body.faulted, TRUE,
                   ~(resp.body.done \/ resp.body.faulted))

PollIteration(resp) ==
    IF resp.net = ConnectionError
    THEN Iteration(HordeError(MsgUnavailable), FALSE, FALSE, FALSE, FALSE)
    ELSE IF ~Ok(resp.status)
    THEN Iteration(HordeError(MsgNonStandard), FALSE, FALSE, FALSE, FALSE)
    ELSE IF ~resp.json
    THEN Iteration(HordeError(MsgUnexpectedMessage), FALSE, FALSE, FALSE, FALSE)
    ELSE IF ~resp.body.hasDone
    THEN Iteration(HordeError(MsgUnexpectedResponse), TRUE, FALSE, FALSE, FALSE)
    ELSE IF ~resp.body.telemetry
    THEN Iteration(Exc("KeyError", "wait_time"), TRUE, resp.body.done, FALSE, FALSE)
    ELSE Iteration(NoError, TRUE, resp.body.done, TRUE, ~resp.body.done)

\* Lines 260-264: out_batches, one row per generation, each the encoded text
\* (np.array over rows of equal length keeps the rows and their order).
OutBatches(generations) ==
    [i \in 1..Len(generations) |-> Encode(generations[i].text)]

\* Variant that reads "generations" before it looks at "faulted".
CompletionGenerationsFirst(status) ==
    IF ~status.hasGens THEN Raise(Exc("KeyError", "generations"))
    ELSE IF ~status.hasFaulted THEN Raise(Exc("KeyError", "faulted"))
    ELSE IF status.faulted THEN Raise(HordeError(MsgFaulted))
    ELSE Return(Some(OutBatches(status.generations)))

\* Lines 251-268: what the call does with the last status once the loop ended.
Completion(status) ==
    IF ~status.hasFaulted THEN Raise(Exc("KeyError", "faulted"))
    ELSE IF status.faulted THEN Raise(HordeError(MsgFaulted))
    ELSE IF ~status.hasGens THEN Raise(Exc("KeyError", "generations"))
    ELSE Return(Some(OutBatches(status.generations)))

\* Entry of _raw_generate up to the start of the loop (lines 135-210): the
\* request is built and POSTed once.
RawGenerateSubmit(resp) ==
    /\ hordeState = "constructed"
    /\ hpc \in {"idle", "returned", "raised"}
    /\ posts' = 1
    /\ gets' = 0
    /\ sleeps' = 0
    /\ postResp' = resp
    /\ statusLog' = <<>>
    /\ req_status' = NoBody
    /\ hordeResult' = None
    /\ LET e == SubmitOutcome(resp)
       IN IF e = NoError
          THEN /\ request_id' = Some("job")
               /\ finished' = FALSE
               /\ hpc' = "polling"
               /\ hordeError' = NoError
          ELSE /\ request_id' = None
               /\ finished' = FALSE
               /\ hpc' = "raised"
               /\ hordeError' = e
    /\ UNCHANGED <<hordeState, models, initError, modelsResp, horde_telemetry,
                   backend, setupVars, unloadVars, genVars>>

\* One pass of `while not finished` (lines 212-249) and, when the loop ends,
\* the rest of the call (lines 251-268).
RawGeneratePoll(resp) ==
    /\ hpc = "polling"
    /\ ~finished
    /\ gets < MaxPolls
    /\ LET it == PollIteration(resp)
           done == Completion(resp.body)
       IN /\ gets' = gets + 1
          /\ statusLog' = Append(statusLog, resp)
          /\ sleeps' = IF it.sleep THEN sleeps + 1 ELSE sleeps
          /\ req_status' = IF it.parsed THEN resp.body ELSE req_status
          /\ finished' = IF it.parsed /\ resp.body.hasDone THEN it.finished ELSE finished
          /\ horde_telemetry' = IF it.recorded THEN "recorded" ELSE horde_telemetry
          /\ IF it.error # NoError
             THEN /\ hpc' = "raised"
                  /\ hordeError' = it.error
                  /\ hordeResult' = None
             ELSE IF ~it.finished
             THEN /\ hpc' = "polling"
                  /\ UNCHANGED <<hordeError, hordeResult>>
             ELSE /\ hpc' = IF done.error = NoError THEN "returned" ELSE "raised"
                  /\ hordeError' = done.error
                  /\ hordeResult' = done.value
    /\ UNCHANGED <<hordeState, models, initError, modelsResp, posts, postResp,
                   request_id, backend, setupVars, unloadVars, genVars>>

HordeInit ==
    /\ hordeState = "none"
    /\ models = None
    /\ initError = NoError
    /\ modelsResp = NoModelsResponse
    /\ hpc = "idle"
    /\ posts = 0
    /\ gets = 0
    /\ sleeps = 0
    /\ postResp = NoPost
    /\ statusLog = <<>>
    /\ request_id = None
    /\ finished = FALSE
    /\ req_status = NoBody
    /\ horde_telemetry = "unset"
    /\ hordeResult = None
    /\ hordeError = NoError

HordeNext ==
    \/ \E resp \in ModelsResponses : HordeConstruct(resp)
    \/ \E resp \in PostResponses : RawGenerateSubmit(resp)
    \/ \E resp \in StatusResponses : RawGeneratePoll(resp)

-----------------------------------------------------------------------------
\* Properties of the Horde adapter.

LastStatus == statusLog[Len(statusLog)]

\* A status answer with everything the client reads.
WellFormed(r) ==
    /\ r.net = "ok"
    /\ Ok(r.status)
    /\ r.json
    /\ r.body.hasDone
    /\ r.body.telemetry
    /\ r.body.hasFaulted
    /\ (r.body.done => r.body.hasGens)

\* The status endpoint answered k well-formed not-done answers and then a
\* well-formed one with done=true, faulted=false (k = Len(statusLog) - 1).
PolledToSuccess ==
    /\ Len(statusLog) > 0
    /\ \A i \in 1..(Len(statusLog) - 1) : WellFormed(statusLog[i]) /\ ~statusLog[i].body.done
    /\ WellFormed(LastStatus)
    /\ LastStatus.body.done
    /\ ~LastStatus.body.faulted

\* C1: after k well-formed not-done answers and one done, not faulted answer,
\* the call has issued exactly k+1 GETs, slept exactly k times, and returned a
\* result with one row per entry of "generations", in the same order.
C1_PollsThenReturns ==
    PolledToSuccess =>
        /\ hpc = "returned"
        /\ hordeError = NoError
        /\ gets = Len(statusLog)
        /\ sleeps = Len(statusLog) - 1
        /\ hordeResult.some
        /\ Len(hordeResult.val) = Len(LastStatus.body.generations)
        /\ \A i \in 1..Len(hordeResult.val) :
              hordeResult.val[i] = Encode(LastStatus.body.generations[i].text)

\* Three not-done answers, then done: four GETs, three pauses, two rows.
C1_Witness ==
    /\ PolledToSuccess
    /\ hpc = "returned"
    /\ gets = 4
    /\ sleeps = 3
    /\ Len(hordeResult.val) = 2
    /\ hordeResult.val[1] # hordeResult.val[2]

\* The polling loop ended on the last answer: it was parsed, carried done=true
\* and the telemetry the loop body reads.
LoopEndedOnLast ==
    /\ Len(statusLog) > 0
    /\ LastStatus.net = "ok"
    /\ Ok(LastStatus.status)
    /\ LastStatus.json
    /\ LastStatus.body.hasDone
    /\ LastStatus.body.done
    /\ LastStatus.body.telemetry

\* C2: when the loop ends on an answer with done=true and faulted=true, the
\* call raises the job-fault HordeException and returns no result, whatever
\* the answer's "generations" holds (present or absent).
C2_FaultedRaises ==
    (LoopEndedOnLast /\ LastStatus.body.hasFaulted /\ LastStatus.body.faulted) =>
        /\ hpc = "raised"
        /\ hordeError = HordeError(MsgFaulted)
        /\ hordeResult = None

C2_Witness ==
    /\ LoopEndedOnLast
    /\ LastStatus.body.faulted
    /\ LastStatus.body.hasGens
    /\ Len(LastStatus.body.generations) = 2
    /\ hordeError = HordeError(MsgFaulted)
    /\ gets = 2

\* C3: a 503 answer to the POST ends the call with the "no servers" error, any
\* other non-success status with the generic error, the two errors differ,
\* and no status GET is issued in either case.
C3_SubmitStatusErrors ==
    (posts = 1 /\ postResp.net = "ok" /\ ~Ok(postResp.status)) =>
        /\ hpc = "raised"
        /\ gets = 0
        /\ hordeResult = None
        /\ hordeError.kind = "HordeException"
        /\ (postResp.status = 503) = (hordeError.msg = MsgNoServers)
        /\ (postResp.status # 503) = (hordeError.msg = MsgNonStandard)

C3_Witness ==
    /\ posts = 1
    /\ postResp.net = "ok"
    /\ postResp.status = 503
    /\ hordeError = HordeError(MsgNoServers)
    /\ gets = 0

\* The failures the client treats as transport or protocol failures.
PostFailed(r) == r.net = ConnectionError \/ ~Ok(r.status) \/ ~r.json
StatusFailed(r) ==
    r.net = ConnectionError \/ ~Ok(r.status) \/ ~r.json \/ ~r.body.hasDone

\* C4: a call makes at most one POST, and a failed answer (to the POST or to
\* any GET) is the last request of the call, which ends with an error and no
\* result.
C4_NoRetry ==
    /\ posts <= 1
    /\ (posts = 1 /\ PostFailed(postResp)) =>
          /\ gets = 0
          /\ hpc = "raised"
          /\ hordeError # NoError
          /\ hordeResult = None
    /\ \A i \in 1..Len(statusLog) :
          StatusFailed(statusLog[i]) =>
              /\ i = Len(statusLog)
              /\ gets = i
              /\ hpc = "raised"
              /\ hordeError # NoError
              /\ hordeResult = None

\* A GET fails after two not-done answers.
C4_Witness ==
    /\ Len(statusLog) = 3
    /\ StatusFailed(statusLog[3])
    /\ ~StatusFailed(statusLog[1])
    /\ hpc = "raised"
    /\ posts = 1

\* The model-status GET failed: no connection, a non-success status, or a
\* body that is not JSON.
ModelsFailed(r) == r.net = ConnectionError \/ ~Ok(r.status) \/ r.body = "nonjson"

\* C9: when the model-status GET fails, construction ends with an exception;
\* no constructed adapter has self.models = None.
C9_InitFailureSurfaces ==
    /\ (hordeState # "none" /\ ModelsFailed(modelsResp)) =>
          (hordeState = "init_failed" /\ initError # NoError)
    /\ hordeState = "constructed" => models.some

C9_Witness ==
    /\ hordeState = "init_failed"
    /\ modelsResp.net = ConnectionError
    /\ initError # NoError

\* C10 (as claimed): a successful POST whose JSON body has no "id" ends the
\* call with the HordeException used for protocol errors, and no GET is issued.
C10_MissingIdIsProtocolError ==
    (posts = 1 /\ postResp.net = "ok" /\ Ok(postResp.status)
        /\ postResp.json /\ ~postResp.hasId) =>
        /\ hpc = "raised"
        /\ hordeError.kind = "HordeException"
        /\ gets = 0

\* The call has ended: it returned a result or raised.
Terminal == hpc \in {"returned", "raised"}

\* The answers that end the polling loop as the claim lists them: done=true,
\* or a connection failure, a non-success status, a non-JSON body, no "done".
EndsAsClaimed(r) == StatusFailed(r) \/ r.body.done

\* C11 (as claimed): after a successful submission the call is in a terminal
\* state iff the status endpoint has given an answer with done=true or one of
\* the listed failing answers.
C11_TerminalIffDoneOrFailing ==
    request_id.some =>
        (Terminal <=> \E i \in 1..Len(statusLog) : EndsAsClaimed(statusLog[i]))

\* The answers that end the polling loop: those above, and a JSON answer that
\* lacks wait_time, queue_position or waiting (lines 243-245 raise KeyError).
EndsLoop(r) == StatusFailed(r) \/ ~r.body.telemetry \/ r.body.done

WellFormedNotDone(r) == WellFormed(r) /\ ~r.body.done

\* C11 (amended): after a successful submission the call is in a terminal
\* state iff the status endpoint has given an answer that has done=true, is a
\* failing answer, or lacks a telemetry field; as long as every answer is
\* well-formed with done=false the call is still polling, whatever the number
\* of polls; the ending answer is the last one, and a GET is issued only by a
\* call that is still polling.
C11_PollingState ==
    request_id.some =>
        /\ gets = Len(statusLog)
        /\ (Terminal <=> \E i \in 1..Len(statusLog) : EndsLoop(statusLog[i]))
        /\ ((\A i \in 1..Len(statusLog) : WellFormedNotDone(statusLog[i]))
                => hpc = "polling" /\ ~finished)
        /\ \A i \in 1..Len(statusLog) : EndsLoop(statusLog[i]) => i = Len(statusLog)

\* C11 (amended), in every state and at every step: the state condition above
\* holds, and the number of GETs grows only while the call is polling.
C11_PollsUntilEndingAnswer ==
    /\ []C11_PollingState
    /\ [][gets' = gets + 1 => (hpc = "polling" /\ ~finished)]_vars

\* Two well-formed not-done answers, then a not-done answer without the
\* telemetry fields: the call ends on the third GET.
C11_Witness ==
    /\ request_id.some
    /\ Len(statusLog) = 3
    /\ WellFormedNotDone(statusLog[1])
    /\ WellFormedNotDone(statusLog[2])
    /\ ~StatusFailed(statusLog[3])
    /\ ~statusLog[3].body.done
    /\ ~statusLog[3].body.telemetry
    /\ hpc = "raised"
    /\ hordeError = Exc("KeyError", "wait_time")

\* A well-formed answer with done=false that reports faulted=true.
FaultedNotDone(r) == WellFormedNotDone(r) /\ r.body.faulted

\* C15: a well-formed answer with done=false never ends the call, even when it
\* carries faulted=true, and the call ends with the job-fault error only on an
\* answer in which both done and faulted are true.
C15_FaultedOnlyWhenDone ==
    /\ \A i \in 1..Len(statusLog) :
          FaultedNotDone(statusLog[i]) =>
              \/ i < Len(statusLog)
              \/ (hpc = "polling" /\ hordeError = NoError)
    /\ hordeError = HordeError(MsgFaulted) =>
          /\ Len(statusLog) > 0
          /\ LastStatus.body.hasDone
          /\ LastStatus.body.done
          /\ LastStatus.body.hasFaulted
          /\ LastStatus.body.faulted

\* A not-done answer reporting faulted=true is polled past; the next answer,
\* done and faulted, ends the call with the job-fault error.
C15_Witness ==
    /\ Len(statusLog) = 2
    /\ FaultedNotDone(statusLog[1])
    /\ LastStatus.body.done
    /\ LastStatus.body.faulted
    /\ gets = 2
    /\ sleeps = 1
    /\ hordeError = HordeError(MsgFaulted)

-----------------------------------------------------------------------------
\* The environment of the ExLlama adapter: the model directory.
\*   config   "absent" | "garbled" (not JSON) | "incomplete" (JSON without the
\*            fields ExLlamaConfig reads) | "complete"
\*   fallback the config.json of models/<model name>, consulted only when the
\*            model path does not exist: "absent" | "garbled" | "complete"
Directory(e, c, b, n, m, l, f) ==
    [exists |-> e, config |-> c, gptq_bits |-> b, num_layers |-> n,
     model_safetensors |-> m, legacy |-> l, fallback |-> f]

Directories ==
    {d \in {Directory(TRUE, c, b, n, m, l, "absent") :
                c \in {"absent", "garbled", "incomplete", "complete"},
                b \in BOOLEAN, n \in 1..MaxLayers, m \in BOOLEAN, l \in BOOLEAN} :
        /\ (d.config \in {"absent", "garbled"} => ~d.gptq_bits)
        /\ (d.config # "complete" => d.num_layers = 1)}
    \cup {Directory(FALSE, "absent", FALSE, 1, FALSE, FALSE, f) :
            f \in {"absent", "garbled"}}
    \cup {Directory(FALSE, "absent", FALSE, n, FALSE, FALSE, "complete") :
            n \in 1..MaxLayers}

\* self.model_config: None, False, or an ExLlamaConfig with its layer count and
\* device_map.layers (a list of device indices, "cuda:<i>").
ConfigNone == [kind |-> "None", num_layers |-> 0, device_map_layers |-> <<>>]
ConfigFalse == [kind |-> "False", num_layers |-> 0, device_map_layers |-> <<>>]

\* ExLlamaConfig(path): the device map starts with every layer on cuda:0.
ExLlamaConfig(n) ==
    [kind |-> "Config", num_layers |-> n, device_map_layers |-> [i \in 1..n |-> 0]]

-----------------------------------------------------------------------------
\* ExLlama adapter: is_valid (class.py lines 44-63, 98-121).

GptqSettings(m, f) == [gptq_model |-> m, gptq_file |-> f]

\* load_model_gptq_settings(path): json.load of config.json, then the layout.
load_model_gptq_settings(d) ==
    IF ~d.exists \/ d.config \in {"absent", "garbled"}
    THEN GptqSettings(FALSE, "False")
    ELSE IF d.gptq_bits
    THEN GptqSettings(TRUE, "model.safetensors")
    ELSE IF d.legacy
    THEN GptqSettings(TRUE, "4bit.safetensors")
    ELSE GptqSettings(FALSE, "False")

\* _load_config: raised is TRUE when ExLlamaConfig could not read the file.
LoadedConfig(r, c) == [raised |-> r, config |-> c]

_load_config(d) ==
    IF d.exists
    THEN IF d.config = "complete"
         THEN LoadedConfig(FALSE, ExLlamaConfig(d.num_layers))
         ELSE LoadedConfig(TRUE, ConfigFalse)
    ELSE IF d.fallback = "absent"
    THEN LoadedConfig(FALSE, ConfigFalse)
    ELSE IF d.fallback = "complete"
    THEN LoadedConfig(FALSE, ExLlamaConfig(d.num_layers))
    ELSE LoadedConfig(TRUE, ConfigFalse)

\* The value is_valid returns: `self.model_config and gptq_model`, or False
\* when _load_config raised.
is_valid_result(d) ==
    LET gptq_model == load_model_gptq_settings(d).gptq_model
        c == _load_config(d)
    IN IF c.raised THEN FALSE
       ELSE IF c.config.kind # "Config" THEN FALSE
       ELSE gptq_model

IsValid ==
    /\ backend = "ExLlama"
    /\ ~loaded
    /\ LET c == _load_config(dir)
       IN model_config' = IF c.raised THEN model_config ELSE c.config
    /\ isValidResult' = IF is_valid_result(dir) THEN "True" ELSE "False"
    \* the host negotiates the parameters anew after each probe
    /\ submitted' = None
    /\ rejected' = FALSE
    /\ upc' = "idle"
    /\ UNCHANGED <<backend, hordeVars, dir, gpu_count, layers, loaded, genVars,
                   handles, tensors, zero_failed, gc_collected, cache_emptied>>

-----------------------------------------------------------------------------
\* ExLlama adapter: layer placement (class.py lines 335-388).

NoInt == [some |-> FALSE, val |-> 0]
SomeInt(n) == [some |-> TRUE, val |-> n]

\* A value of parameters["<i>_Layers"]: an int, a numeric string or another string.
IntValue(n) == [type |-> "int", numeric |-> TRUE, n |-> n]
StrValue(n) == [type |-> "str", numeric |-> TRUE, n |-> n]
NonNumeric == [type |-> "str", numeric |-> FALSE, n |-> 0]

LayerValues ==
    {IntValue(n) : n \in -1..MaxLayers} \cup {StrValue(1), NonNumeric}

\* All assignments for g devices; entry i is the value for device i-1.
Assignments(g) == [1..g -> LayerValues]

\* Lines 375-380: a numeric string becomes its int, another string None, any
\* other value is kept.
ParseLayer(v) ==
    IF v.type = "str" /\ v.numeric THEN SomeInt(v.n)
    ELSE IF v.type = "str" THEN NoInt
    ELSE SomeInt(v.n)

Repeat(x, n) == [k \in 1..n |-> x]

\* Variant with the guard off by one: a device given one layer gets none.
PlaceLayersDroppingOne(i, l) == IF l > 1 THEN Repeat(i, l) ELSE <<>>

\* Lines 385-386: the entries device i contributes: [f"cuda:{i}"] * l when l > 0.
PlaceLayers(i, l) == IF l > 0 THEN Repeat(i, l) ELSE <<>>

\* Lines 383-386: the loop over enumerate(layers); `None > 0` raises TypeError
\* and leaves the entries extended so far.
RECURSIVE ExtendLayers(_, _, _)
ExtendLayers(ls, i, acc) ==
    IF i > Len(ls) THEN [raised |-> FALSE, map |-> acc]
    ELSE IF ~ls[i].some THEN [raised |-> TRUE, map |-> acc]
    ELSE ExtendLayers(ls, i + 1, acc \o PlaceLayers(i - 1, ls[i].val))

\* Lines 371-388: self.layers and device_map.layers computed from parameters.
set_input_parameters(parameters) ==
    LET ls == [i \in 1..Len(parameters) |-> ParseLayer(parameters[i])]
        built == ExtendLayers(ls, 1, <<>>)
    IN [layers |-> ls, device_map_layers |-> built.map, raised |-> built.raised]

\* Line 338: the layer count get_requested_parameters reads from the config.
LayerCount(cfg) == cfg.num_layers

RECURSIVE SumLayers(_, _)
SumLayers(ls, i) == IF i > Len(ls) THEN 0 ELSE ls[i].val + SumLayers(ls, i + 1)

\* The validation get_requested_parameters declares for the host (lines 346,
\* 357-360): every slider within min 0 and max layer_count, and the sum of the
\* sliders equal to layer_count. The host enforces it before it calls
\* set_input_parameters.
HostCheckLayers(parameters, layer_count) ==
    LET ls == [i \in 1..Len(parameters) |-> ParseLayer(parameters[i])]
    IN /\ \A i \in 1..Len(ls) : ls[i].some /\ ls[i].val >= 0 /\ ls[i].val <= layer_count
       /\ SumLayers(ls, 1) = layer_count

\* The host submits a layer assignment: it is refused when it violates the
\* declared validation, and given to set_input_parameters otherwise.
HostSetLayers(parameters) ==
    /\ backend = "ExLlama"
    /\ isValidResult = "True"
    /\ model_config.kind = "Config"
    /\ ~loaded
    /\ IF HostCheckLayers(parameters, LayerCount(model_config))
       THEN LET r == set_input_parameters(parameters)
            IN /\ submitted' = Some(parameters)
               /\ rejected' = FALSE
               /\ layers' = r.layers
               /\ model_config' = [model_config EXCEPT !.device_map_layers = r.device_map_layers]
       ELSE /\ rejected' = TRUE
            /\ UNCHANGED <<submitted, layers, model_config>>
    /\ UNCHANGED <<backend, hordeVars, dir, gpu_count, isValidResult, loaded,
                   unloadVars, genVars>>

\* The weights file _get_model hands to ExLlama exists (lines 326-328).
WeightsPresent(d) ==
    LET f == load_model_gptq_settings(d).gptq_file
    IN \/ (f = "model.safetensors" /\ d.model_safetensors)
       \/ (f = "4bit.safetensors" /\ d.legacy)

\* self.model, self.tokenizer, self.cache, self.generator: TRUE when not None.
Handles(m, t, c, g) == [model |-> m, tokenizer |-> t, cache |-> c, generator |-> g]

\* _load (lines 123-129): model, tokenizer, cache and generator are created,
\* the model's weights and the cache as n tensors; _get_model fails on a
\* model_config of None (line 326) and ExLlama when the weights file is missing.
Load(n) ==
    /\ backend = "ExLlama"
    /\ isValidResult = "True"
    /\ model_config.kind = "Config"
    /\ submitted.some
    /\ ~rejected
    /\ ~loaded
    /\ WeightsPresent(dir)
    /\ loaded' = TRUE
    /\ handles' = Handles(TRUE, TRUE, TRUE, TRUE)
    /\ tensors' = [i \in 1..n |-> "allocated"]
    /\ zero_failed' = {}
    /\ gc_collected' = FALSE
    /\ cache_emptied' = FALSE
    /\ upc' = "idle"
    /\ UNCHANGED <<backend, hordeVars, dir, gpu_count, model_config, isValidResult,
                   submitted, rejected, layers, genVars>>

-----------------------------------------------------------------------------
\* ExLlama adapter: unload (class.py lines 215-240).

Zeroed(r, ts) == [raised |-> r, tensors |-> ts]

\* Variant with the try around the whole loop: the first failure ends the walk.
RECURSIVE ZeroTensorsStoppingAtFailure(_, _, _)
ZeroTensorsStoppingAtFailure(ts, failing, i) ==
    IF i > Len(ts) THEN Zeroed(FALSE, ts)
    ELSE IF i \in failing THEN Zeroed(TRUE, ts)
    ELSE ZeroTensorsStoppingAtFailure([ts EXCEPT ![i] = "empty"], failing, i + 1)

\* Lines 229-234: the walk over gc.get_objects() from object i on; set_() gives
\* a tensor an empty storage, and whatever the try body raises is passed over.
RECURSIVE ZeroTensors(_, _, _)
ZeroTensors(ts, failing, i) ==
    IF i > Len(ts) THEN Zeroed(FALSE, ts)
    ELSE IF i \in failing THEN ZeroTensors(ts, failing, i + 1)
    ELSE ZeroTensors([ts EXCEPT ![i] = "empty"], failing, i + 1)

\* unload(): the handles are cleared first; `failing` are the tensors whose
\* zeroing raises, `cuda_fails` whether torch.cuda.empty_cache() raises.
Unload(failing, cuda_fails) ==
    /\ backend = "ExLlama"
    /\ lpc \in {"idle", "returned"}
    /\ failing \subseteq DOMAIN tensors
    /\ model_config' = ConfigNone
    /\ handles' = Handles(FALSE, FALSE, FALSE, FALSE)
    /\ loaded' = FALSE
    /\ LET z == ZeroTensors(tensors, failing, 1)
       IN /\ tensors' = z.tensors
          /\ zero_failed' = failing
          /\ IF z.raised
             THEN /\ upc' = "raised"
                  /\ gc_collected' = FALSE
                  /\ cache_emptied' = FALSE
             ELSE /\ upc' = "returned"
                  /\ gc_collected' = TRUE
                  /\ cache_emptied' = ~cuda_fails
    \* the placement has to be negotiated anew for the next configuration
    /\ submitted' = None
    /\ rejected' = FALSE
    /\ UNCHANGED <<backend, hordeVars, dir, gpu_count, isValidResult, layers, genVars>>

-----------------------------------------------------------------------------
\* ExLlama adapter: the generation loop (class.py lines 270-320).

Vocab == {"bos", "eos", "x", "y"}
bos_token_id == "bos"
eos_token_id == "eos"
Prompts == {<<"bos", "x">>, <<"x", "eos">>}
Seeds == {NoInt, SomeInt(0), SomeInt(7)}
InitialTkns == {0, 5}

\* Line 291: the logits model.forward may return, one float per token: a flat
\* output and one that favours the beginning-of-sequence token.
Logits(b, e, x, y) == [t \in Vocab |-> CASE t = "bos" -> b [] t = "eos" -> e
                                          [] t = "x" -> x [] OTHER -> y]

Forward == {Logits(0, 0, 0, 0), Logits(9, 0, 3, 1)}

\* Line 292: the value written over the beginning-of-sequence logit.
Sentinel == -10000

SuppressBos(logits) == [logits EXCEPT ![bos_token_id] = Sentinel]

\* float("-inf"), the score a filtering sampler gives a removed token.
NegInf == -1000000

\* The sampler settings warpers.update_settings() reads from the host: the
\* order of the samplers and the strength of each.
SamplerSettings ==
    [sampler_order : {<<"temperature", "top_k">>, <<"top_k", "temperature">>},
     temperature : {1, 2, 1000},
     top_k : {0, 1}]

\* Line 250: a sampler at its neutral strength is skipped.
value_is_valid(sid, settings) ==
    IF sid = "temperature" THEN settings.temperature # 1 ELSE settings.top_k > 0

\* Temperature: every score is divided by the temperature.
Temperature(scores, temperature) ==
    [t \in Vocab |-> IF scores[t] = NegInf THEN NegInf ELSE scores[t] \div temperature]

\* Top-k: the scores below the k-th largest become -inf.
TopK(scores, k) ==
    [t \in Vocab |->
        IF Cardinality({u \in Vocab : scores[u] > scores[t]}) < k
        THEN scores[t] ELSE NegInf]

\* Lines 253-257: warper.torch(scores).
WarperTorch(sid, scores, settings) ==
    IF sid = "temperature" THEN Temperature(scores, settings.temperature)
    ELSE TopK(scores, settings.top_k)

\* Lines 242-268: the samplers of sampler_order are applied in order.
RECURSIVE ApplyFrom(_, _, _)
ApplyFrom(scores, settings, i) ==
    IF i > Len(settings.sampler_order) THEN scores
    ELSE LET sid == settings.sampler_order[i]
         IN IF ~value_is_valid(sid, settings)
            THEN ApplyFrom(scores, settings, i + 1)
            ELSE ApplyFrom(WarperTorch(sid, scores, settings), settings, i + 1)

_apply_warpers(scores, settings) == ApplyFrom(scores, settings, 1)

\* exp(d) rounds to zero in single precision once d is below about -104.
ExpUnderflow == 104

MaxScore(scores) ==
    CHOOSE m \in {scores[t] : t \in Vocab} : \A t \in Vocab : scores[t] <= m

\* Lines 298-300: softmax gives a token the probability exp(score - max) / sum,
\* zero when the score is -inf or lies ExpUnderflow or more below the largest;
\* multinomial draws a token of non-zero probability.
Sampleable(scores) ==
    {t \in Vocab : scores[t] # NegInf /\ MaxScore(scores) - scores[t] < ExpUnderflow}

\* Variant that never leaves the loop early.
StopsOnNothing(token) == FALSE

\* Line 308: the loop breaks when the sampled token is the end-of-sequence id.
StopsOn(token) == token = eos_token_id

\* Variant that keeps the incremented counter.
FinalCountKeepsCounter(n, counter) == counter

\* Line 310: the counter reported on exit.
FinalCount(n, counter) == n

\* Lines 314-316: self.generator.sequence[:, gen_in.size(1):]
OutputOf(seq, prompt) == SubSeq(seq, Len(prompt) + 1, Len(seq))

\* Lines 280-281: torch.manual_seed(seed) runs when `seed` is truthy.
Reseed(seed, current) == IF seed.some /\ seed.val # 0 THEN seed ELSE current

\* Entry of _raw_generate (lines 280-288); with max_new = 0 the loop body never
\* runs and the call returns at once (lines 310-320).
RawGenerateBegin(prompt, n, seed) ==
    /\ backend = "ExLlama"
    /\ loaded
    /\ lpc \in {"idle", "returned"}
    /\ rng' = Reseed(seed, rng)
    /\ gen_in' = prompt
    /\ sequence' = prompt
    /\ max_new' = n
    /\ step' = 0
    /\ stopped' = FALSE
    /\ sampled' = <<>>
    /\ bos_score' = NoInt
    /\ seed_arg' = seed
    /\ rng_before' = rng
    /\ tkns_before' = generated_tkns
    /\ IF n = 0
       THEN /\ lpc' = "returned"
            /\ generated_tkns' = FinalCount(n, generated_tkns)
            /\ genResult' = Some(OutputOf(prompt, prompt))
       ELSE /\ lpc' = "generating"
            /\ generated_tkns' = generated_tkns
            /\ genResult' = None
    /\ UNCHANGED <<backend, hordeVars, setupVars, unloadVars>>

\* One iteration of `for i in range(max_new)` (lines 290-308) and, when the
\* loop ends with it, the rest of the call (lines 310-320).
GenStep(logits, settings, token) ==
    /\ backend = "ExLlama"
    /\ lpc = "generating"
    /\ step < max_new
    /\ ~stopped
    /\ LET scores == _apply_warpers(SuppressBos(logits), settings)
       IN /\ token \in Sampleable(scores)
          /\ bos_score' = IF token = bos_token_id THEN SomeInt(scores[token])
                          ELSE bos_score
    /\ LET seq == Append(sequence, token)
           brk == StopsOn(token)
       IN /\ sequence' = seq
          /\ sampled' = Append(sampled, token)
          /\ step' = step + 1
          /\ stopped' = brk
          /\ IF brk \/ step + 1 = max_new
             THEN /\ lpc' = "returned"
                  /\ generated_tkns' = FinalCount(max_new, generated_tkns + 1)
                  /\ genResult' = Some(OutputOf(seq, gen_in))
             ELSE /\ lpc' = "generating"
                  /\ generated_tkns' = generated_tkns + 1
                  /\ genResult' = None
    /\ UNCHANGED <<backend, hordeVars, setupVars, unloadVars, gen_in, max_new, rng,
                   tkns_before,
                   seed_arg, rng_before>>

ExLlamaInit ==
    /\ dir \in Directories
    /\ gpu_count \in 1..MaxGPUs
    /\ model_config = ConfigNone
    /\ isValidResult = "unset"
    /\ submitted = None
    /\ rejected = FALSE
    /\ layers = <<>>
    /\ loaded = FALSE
    /\ handles = Handles(FALSE, FALSE, FALSE, FALSE)
    /\ tensors = <<>>
    /\ zero_failed = {}
    /\ gc_collected = FALSE
    /\ cache_emptied = FALSE
    /\ upc = "idle"
    /\ lpc = "idle"
    /\ gen_in = <<>>
    /\ max_new = 0
    /\ step = 0
    /\ stopped = FALSE
    /\ sequence = <<>>
    /\ sampled = <<>>
    /\ rng = NoInt
    /\ tkns_before = 0
    /\ generated_tkns \in InitialTkns
    /\ genResult = None
    /\ bos_score = NoInt
    /\ seed_arg = NoInt
    /\ rng_before = NoInt

ExLlamaNext ==
    \/ IsValid
    \/ \E parameters \in Assignments(gpu_count) : HostSetLayers(parameters)
    \/ \E n \in 1..MaxTensors : Load(n)
    \/ \E failing \in SUBSET (1..MaxTensors), cuda_fails \in BOOLEAN :
          Unload(failing, cuda_fails)
    \/ \E prompt \in Prompts, n \in 0..MaxNew, seed \in Seeds :
          RawGenerateBegin(prompt, n, seed)
    \/ \E logits \in Forward, settings \in SamplerSettings, token \in Vocab :
          GenStep(logits, settings, token)

-----------------------------------------------------------------------------
\* Properties of the ExLlama adapter.

\* The positions at which the sampler drew the end-of-sequence token.
EosDraws == {k \in 1..Len(sampled) : sampled[k] = eos_token_id}

FirstEos == CHOOSE k \in EosDraws : \A j \in EosDraws : k <= j

\* C5: a returned call whose sampler never drew end-of-sequence has an output
\* of exactly max_new tokens; when end-of-sequence was first drawn as the k-th
\* token, no later step ran and the output has exactly k tokens.
C5_OutputLength ==
    lpc = "returned" =>
        /\ genResult.some
        /\ (EosDraws = {} => Len(genResult.val) = max_new)
        /\ (EosDraws # {} =>
              /\ Len(sampled) = FirstEos
              /\ step = FirstEos
              /\ Len(genResult.val) = FirstEos)

\* End-of-sequence drawn as the second of three requested tokens, after a
\* prompt that itself holds an end-of-sequence token.
C5_Witness ==
    /\ lpc = "returned"
    /\ max_new = 3
    /\ gen_in = <<"x", "eos">>
    /\ EosDraws = {2}
    /\ Len(genResult.val) = 2

\* C6: when _raw_generate has returned, generated_tkns equals max_new, whatever
\* it was before the call and whether or not the loop stopped early.
C6_CounterIsMaxNew ==
    lpc = "returned" => generated_tkns = max_new

\* An early stop after one of three tokens, entered with the counter at 5.
C6_Witness ==
    /\ lpc = "returned"
    /\ max_new = 3
    /\ stopped
    /\ Len(genResult.val) = 1
    /\ tkns_before = 5
    /\ generated_tkns = 3

\* A recognised quantized-weights file is in the directory: model.safetensors
\* under a configuration declaring gptq_bits, or a legacy 4bit*.safetensors.
WeightsArtifact(d) == (d.gptq_bits /\ d.model_safetensors) \/ d.legacy

\* C7 (as claimed): is_valid returns true iff both a weights artifact and a
\* parseable model configuration are in the target directory.
C7_ValidIffWeightsAndConfig ==
    isValidResult # "unset" =>
        ((isValidResult = "True") <=>
            (dir.exists /\ dir.config = "complete" /\ WeightsArtifact(dir)))

\* C12 (as claimed): the beginning-of-sequence logit is overwritten before the
\* samplers and the draw, and so no token drawn during a call, and no token of
\* the returned output, is the beginning-of-sequence token, whatever the
\* sampler settings and the model's logits.
C12_BosNeverGenerated ==
    /\ \A k \in 1..Len(sampled) : sampled[k] # bos_token_id
    /\ genResult.some =>
          \A k \in 1..Len(genResult.val) : genResult.val[k] # bos_token_id

\* C13 (as claimed): a call given a seed has re-seeded the random generator
\* with it, for every integer seed, 0 included; a call given no seed has left
\* the generator as it was.
C13_ReseedsOnEverySeed ==
    lpc # "idle" =>
        /\ (seed_arg.some => rng = seed_arg)
        /\ (~seed_arg.some => rng = rng_before)

\* C14: once unload has run, it has returned normally, the model, tokenizer,
\* cache, generator and model_config handles are None, the reclamation pass
\* has run, and every live tensor whose zeroing did not raise is empty,
\* whichever tensors' zeroing raised.
C14_UnloadReleasesAll ==
    upc # "idle" =>
        /\ upc = "returned"
        /\ handles = Handles(FALSE, FALSE, FALSE, FALSE)
        /\ model_config = ConfigNone
        /\ ~loaded
        /\ gc_collected
        /\ \A t \in DOMAIN tensors : t \notin zero_failed => tensors[t] = "empty"

\* Of two allocated tensors the first one's zeroing raised; the second is
\* empty all the same and the reclamation ran.
C14_Witness ==
    /\ upc = "returned"
    /\ Len(tensors) = 2
    /\ zero_failed = {1}
    /\ tensors[1] = "allocated"
    /\ tensors[2] = "empty"
    /\ gc_collected
    /\ handles = Handles(FALSE, FALSE, FALSE, FALSE)

RECURSIVE GroupedMap(_, _)
GroupedMap(ls, i) ==
    IF i > Len(ls) THEN <<>>
    ELSE [k \in 1..ls[i].val |-> i - 1] \o GroupedMap(ls, i + 1)

SubmittedCounts == [i \in 1..Len(submitted.val) |-> ParseLayer(submitted.val[i])]

\* C8: for every assignment the host is given, either it was refused and no
\* map was built from it, or its counts sum to the model's layer count and
\* device_map.layers has that many entries, grouped by device in increasing
\* index, device i holding exactly its count; the map's length never differs
\* from the layer count.
C8_PlacementState ==
    /\ model_config.kind = "Config" =>
          Len(model_config.device_map_layers) = model_config.num_layers
    /\ submitted.some =>
          /\ \A i \in 1..Len(SubmittedCounts) : SubmittedCounts[i].some
          /\ SumLayers(SubmittedCounts, 1) = model_config.num_layers
          /\ layers = SubmittedCounts
          /\ model_config.device_map_layers = GroupedMap(SubmittedCounts, 1)

-----------------------------------------------------------------------------
\* The host instantiates one backend; the other adapter stays as constructed.
Init ==
    /\ backend \in {"Horde", "ExLlama"}
    /\ HordeInit
    /\ ExLlamaInit
    /\ (backend = "Horde" =>
          /\ dir = Directory(FALSE, "absent", FALSE, 1, FALSE, FALSE, "absent")
          /\ gpu_count = 1
          /\ generated_tkns = 0)

Next == HordeNext \/ ExLlamaNext

Spec == Init /\ [][Next]_vars

\* The Horde backend alone.
HordeStart == Init /\ backend = "Horde"

HordeSpec == HordeStart /\ [][HordeNext]_vars

\* The ExLlama backend from the probe to the load, over every directory.
SetupNext ==
    \/ IsValid
    \/ \E parameters \in Assignments(gpu_count) : HostSetLayers(parameters)
    \/ \E n \in 1..MaxTensors : Load(n)

SetupStart == Init /\ backend = "ExLlama" /\ generated_tkns = 0

SetupSpec == SetupStart /\ [][SetupNext]_vars

\* The ExLlama backend on one loadable directory and one device, through
\* generation.
ReferenceDirectory == Directory(TRUE, "complete", TRUE, 1, TRUE, FALSE, "absent")

GenStart == Init /\ backend = "ExLlama" /\ dir = ReferenceDirectory /\ gpu_count = 1

GenNext ==
    \/ IsValid
    \/ \E parameters \in Assignments(gpu_count) : HostSetLayers(parameters)
    \/ Load(MaxTensors)
    \/ \E prompt \in Prompts, n \in 0..MaxNew, seed \in Seeds :
          RawGenerateBegin(prompt, n, seed)
    \/ \E logits \in Forward, settings \in SamplerSettings, token \in Vocab :
          GenStep(logits, settings, token)

GenSpec == GenStart /\ [][GenNext]_vars

\* The ExLlama backend on one device from the probe through load and unload,
\* over every directory.
LifecycleNext ==
    \/ SetupNext
    \/ \E failing \in SUBSET (1..MaxTensors), cuda_fails \in BOOLEAN :
          Unload(failing, cuda_fails)

LifecycleStart == SetupStart /\ gpu_count = 1

LifecycleSpec == LifecycleStart /\ [][LifecycleNext]_vars

====
